---- MODULE Spec2Model ----
(***************************************************************************)
(* Model of the YouTube explainer evaluator: the prompt construction and   *)
(* reply normalisation pipeline of server/server.js, the Lambda handler of *)
(* amplify/functions/evaluator/index.js and the result extraction of       *)
(* public/script.js.                                                       *)
(*                                                                         *)
(* A JavaScript string is a sequence of atoms.  An atom is a TLA+ string   *)
(* standing for one character ("{", "\"", "7", " ") or for an indivisible  *)
(* run of letters ("metric", "Here").  Concatenation is \o, so indexOf,    *)
(* lastIndexOf, slice and includes work on atoms as they work on           *)
(* characters in the source.                                               *)
(***************************************************************************)
EXTENDS Integers, Sequences, FiniteSets

\* ------------------------------------------------------------------------
\* JavaScript values
\* ------------------------------------------------------------------------

Undefined == [t |-> "undefined"]

Null == [t |-> "null"]

Bool(b) == [t |-> "bool", b |-> b]

Num(n) == [t |-> "num", n |-> n]

Str(s) == [t |-> "str", s |-> s]

Arr(items) == [t |-> "arr", items |-> items]

\* An object keeps its own properties in insertion order.
Obj(keys, vals) == [t |-> "obj", keys |-> keys, vals |-> vals]

\* A function value (an inherited method of Object.prototype).
Func(name) == [t |-> "func", name |-> name]

\* ToBoolean: what `!x`, `x || y`, `if (x)` and `x && y` test.
Truthy(v) ==
  CASE v.t = "undefined" -> FALSE
    [] v.t = "null" -> FALSE
    [] v.t = "bool" -> v.b
    [] v.t = "num" -> v.n # 0
    [] v.t = "str" -> v.s # <<>>
    [] OTHER -> TRUE

\* The outcome of running a piece of code: it returns a value or throws.
Return(v) == [threw |-> FALSE, value |-> v]

\* Throwing an Error whose message is the string s.
ThrowMsg(s) == [threw |-> TRUE, value |-> Str(s)]

Throw(e) == ThrowMsg(<<e>>)

\* ------------------------------------------------------------------------
\* String helpers: indexOf, lastIndexOf, slice, includes
\* ------------------------------------------------------------------------

\* text.indexOf(a): 0-based position of the first a, -1 when there is none.
indexOf(text, a) ==
  IF \E k \in 1..Len(text) : text[k] = a
    THEN (CHOOSE k \in 1..Len(text) :
            text[k] = a /\ \A j \in 1..(k - 1) : text[j] # a) - 1
    ELSE -1

\* text.lastIndexOf(a): 0-based position of the last a, -1 when there is none.
lastIndexOf(text, a) ==
  IF \E k \in 1..Len(text) : text[k] = a
    THEN (CHOOSE k \in 1..Len(text) :
            text[k] = a /\ \A j \in (k + 1)..Len(text) : text[j] # a) - 1
    ELSE -1

\* text.slice(from, to) for 0 <= from <= to: positions from .. to-1 (0-based).
slice(text, from, to) == SubSeq(text, from + 1, to)

\* hay.includes(needle): needle occurs as a contiguous run, case-sensitively.
includes(hay, needle) ==
  \E k \in 0..(Len(hay) - Len(needle)) :
     \A j \in 1..Len(needle) : hay[k + j] = needle[j]

\* ------------------------------------------------------------------------
\* JSON.parse
\* ------------------------------------------------------------------------

\* JSON whitespace between tokens.
IsWs(a) == a \in {" ", "\n", "\t"}

\* Characters that may not appear raw inside a JSON string literal.
IsControl(a) == a \in {"\n", "\t"}

Digits == {"0", "1", "2", "3", "4", "5", "6", "7", "8", "9"}

DigitVal(a) ==
  CASE a = "0" -> 0 [] a = "1" -> 1 [] a = "2" -> 2 [] a = "3" -> 3
    [] a = "4" -> 4 [] a = "5" -> 5 [] a = "6" -> 6 [] a = "7" -> 7
    [] a = "8" -> 8 [] a = "9" -> 9

DigitOf(d) ==
  CASE d = 0 -> "0" [] d = 1 -> "1" [] d = 2 -> "2" [] d = 3 -> "3"
    [] d = 4 -> "4" [] d = 5 -> "5" [] d = 6 -> "6" [] d = 7 -> "7"
    [] d = 8 -> "8" [] d = 9 -> "9"

\* The two escape sequences of the model: \" and \n inside a string literal.
EscQuote == "\\\""

EscNewline == "\\n"

\* A parse step: failure, or a value and the 1-based position after it.
PFail == [ok |-> FALSE, v |-> Undefined, next |-> 0]

POk(v, next) == [ok |-> TRUE, v |-> v, next |-> next]

RECURSIVE SkipWs(_, _)
SkipWs(t, i) == IF i <= Len(t) /\ IsWs(t[i]) THEN SkipWs(t, i + 1) ELSE i

\* The body of a string literal from position j on, up to the closing quote.
RECURSIVE ScanString(_, _, _)
ScanString(t, j, acc) ==
  IF j > Len(t) THEN PFail
  ELSE IF t[j] = "\"" THEN POk(Str(acc), j + 1)
  ELSE IF IsControl(t[j]) THEN PFail
  ELSE IF t[j] = EscQuote THEN ScanString(t, j + 1, Append(acc, "\""))
  ELSE IF t[j] = EscNewline THEN ScanString(t, j + 1, Append(acc, "\n"))
  ELSE ScanString(t, j + 1, Append(acc, t[j]))

\* A run of digits from position j on (no leading zero, no sign, no fraction).
RECURSIVE ScanDigits(_, _, _)
ScanDigits(t, j, acc) ==
  IF j <= Len(t) /\ t[j] \in Digits
    THEN ScanDigits(t, j + 1, 10 * acc + DigitVal(t[j]))
    ELSE POk(Num(acc), j)

ParseNumber(t, i) ==
  IF t[i] = "0" THEN POk(Num(0), i + 1) ELSE ScanDigits(t, i, 0)

\* Defining a property: a repeated key keeps its place and takes the new value.
ObjPut(o, k, v) ==
  IF \E n \in 1..Len(o.keys) : o.keys[n] = k
    THEN Obj(o.keys, [n \in 1..Len(o.keys) |->
                        IF o.keys[n] = k THEN v ELSE o.vals[n]])
    ELSE Obj(Append(o.keys, k), Append(o.vals, v))

RECURSIVE ParseValue(_, _)
RECURSIVE ParseMembers(_, _, _)
RECURSIVE ParseElements(_, _, _)

\* "key" : value ( , "key" : value )* }
ParseMembers(t, i, o) ==
  LET j == SkipWs(t, i) IN
  IF j > Len(t) \/ t[j] # "\"" THEN PFail
  ELSE LET key == ScanString(t, j + 1, <<>>) IN
    IF ~key.ok THEN PFail
    ELSE LET c == SkipWs(t, key.next) IN
      IF c > Len(t) \/ t[c] # ":" THEN PFail
      ELSE LET val == ParseValue(t, c + 1) IN
        IF ~val.ok THEN PFail
        ELSE LET m == SkipWs(t, val.next)
                 o2 == ObjPut(o, key.v.s, val.v) IN
          IF m > Len(t) THEN PFail
          ELSE IF t[m] = "," THEN ParseMembers(t, m + 1, o2)
          ELSE IF t[m] = "}" THEN POk(o2, m + 1)
          ELSE PFail

\* value ( , value )* ]
ParseElements(t, i, items) ==
  LET val == ParseValue(t, i) IN
  IF ~val.ok THEN PFail
  ELSE LET m == SkipWs(t, val.next)
           items2 == Append(items, val.v) IN
    IF m > Len(t) THEN PFail
    ELSE IF t[m] = "," THEN ParseElements(t, m + 1, items2)
    ELSE IF t[m] = "]" THEN POk(Arr(items2), m + 1)
    ELSE PFail

ParseValue(t, i) ==
  LET j == SkipWs(t, i) IN
  IF j > Len(t) THEN PFail
  ELSE IF t[j] = "{" THEN
    LET k == SkipWs(t, j + 1) IN
    IF k <= Len(t) /\ t[k] = "}" THEN POk(Obj(<<>>, <<>>), k + 1)
    ELSE ParseMembers(t, j + 1, Obj(<<>>, <<>>))
  ELSE IF t[j] = "[" THEN
    LET k == SkipWs(t, j + 1) IN
    IF k <= Len(t) /\ t[k] = "]" THEN POk(Arr(<<>>), k + 1)
    ELSE ParseElements(t, j + 1, <<>>)
  ELSE IF t[j] = "\"" THEN ScanString(t, j + 1, <<>>)
  ELSE IF t[j] \in Digits THEN ParseNumber(t, j)
  ELSE IF t[j] = "null" THEN POk(Null, j + 1)
  ELSE IF t[j] = "true" THEN POk(Bool(TRUE), j + 1)
  ELSE IF t[j] = "false" THEN POk(Bool(FALSE), j + 1)
  ELSE PFail

\* JSON.parse(text): the value, or a SyntaxError when the text is not exactly
\* one JSON value with optional surrounding whitespace.
JSONparse(text) ==
  LET r == ParseValue(text, 1) IN
  IF r.ok /\ SkipWs(text, r.next) = Len(text) + 1
    THEN Return(r.v)
    ELSE Throw("SyntaxError")

\* ------------------------------------------------------------------------
\* JSON.stringify (no indentation)
\* ------------------------------------------------------------------------

RECURSIVE NumStr(_)
NumStr(n) == IF n < 10 THEN <<DigitOf(n)>>
             ELSE NumStr(n \div 10) \o <<DigitOf(n % 10)>>

EscapeAtom(a) == IF a = "\"" THEN EscQuote
                 ELSE IF a = "\n" THEN EscNewline ELSE a

Quote(s) == <<"\"">> \o [k \in 1..Len(s) |-> EscapeAtom(s[k])] \o <<"\"">>

RECURSIVE Stringify(_)
RECURSIVE StringifyItems(_, _)
RECURSIVE StringifyMembers(_, _, _)

StringifyItems(items, k) ==
  IF k > Len(items) THEN <<>>
  ELSE (IF k > 1 THEN <<",">> ELSE <<>>)
       \o Stringify(items[k]) \o StringifyItems(items, k + 1)

StringifyMembers(keys, vals, k) ==
  IF k > Len(keys) THEN <<>>
  ELSE (IF k > 1 THEN <<",">> ELSE <<>>)
       \o Quote(keys[k]) \o <<":">> \o Stringify(vals[k])
       \o StringifyMembers(keys, vals, k + 1)

Stringify(v) ==
  CASE v.t = "null" -> <<"null">>
    [] v.t = "bool" -> IF v.b THEN <<"true">> ELSE <<"false">>
    [] v.t = "num" -> NumStr(v.n)
    [] v.t = "str" -> Quote(v.s)
    [] v.t = "arr" -> <<"[">> \o StringifyItems(v.items, 1) \o <<"]">>
    [] v.t = "obj" -> <<"{">> \o StringifyMembers(v.keys, v.vals, 1) \o <<"}">>

\* ------------------------------------------------------------------------
\* tryParseJSON
\* ------------------------------------------------------------------------

\* The same helper with the inner try/catch left out.
tryParseJSON_NoInnerCatch(text) ==
  LET full == JSONparse(text) IN
  IF ~full.threw THEN full
  ELSE LET start == indexOf(text, "{")
           end == lastIndexOf(text, "}") IN
    IF start # -1 /\ end # -1 /\ end > start
      THEN JSONparse(slice(text, start, end + 1))
      ELSE Return(Null)

\* The same helper cutting at the first closing brace.
tryParseJSON_FirstClose(text) ==
  LET full == JSONparse(text) IN
  IF ~full.threw THEN full
  ELSE LET start == indexOf(text, "{")
           end == indexOf(text, "}") IN
    IF start # -1 /\ end # -1 /\ end > start
      THEN LET substr == slice(text, start, end + 1)
               sub == JSONparse(substr) IN
           IF ~sub.threw THEN sub ELSE Return(Null)
      ELSE Return(Null)

tryParseJSON(text) ==
  LET full == JSONparse(text) IN
  IF ~full.threw THEN full
  ELSE LET start == indexOf(text, "{")
           end == lastIndexOf(text, "}") IN
    IF start # -1 /\ end # -1 /\ end > start
      THEN LET substr == slice(text, start, end + 1)
               sub == JSONparse(substr) IN
           IF ~sub.threw THEN sub ELSE Return(Null)
      ELSE Return(Null)

\* ------------------------------------------------------------------------
\* Property access
\* ------------------------------------------------------------------------

\* Property names the code reads.
kMetric == <<"metric">>

kScore == <<"score">>

kFeedback == <<"feedback">>

kMetrics == <<"metrics">>

kResults == <<"results">>

kCommon == <<"common_improvements">>

kLength == <<"length">>

kZero == <<"0">>

\* Names every plain object inherits from Object.prototype.
ObjectPrototypeNames ==
  {<<"constructor">>, <<"toString">>, <<"valueOf">>, <<"hasOwnProperty">>}

\* v[name] for a v that is neither null nor undefined: an own property, else
\* an inherited one, else undefined.
Get(v, name) ==
  CASE v.t = "obj" ->
         IF \E n \in 1..Len(v.keys) : v.keys[n] = name
           THEN v.vals[CHOOSE n \in 1..Len(v.keys) : v.keys[n] = name]
           ELSE IF name \in ObjectPrototypeNames THEN Func(name)
           ELSE Undefined
    [] v.t = "arr" ->
         IF name = kLength THEN Num(Len(v.items))
         ELSE IF name = kZero /\ v.items # <<>> THEN v.items[1]
         ELSE IF name \in ObjectPrototypeNames THEN Func(name)
         ELSE Undefined
    [] v.t = "str" ->
         IF name = kLength THEN Num(Len(v.s))
         ELSE IF name \in ObjectPrototypeNames THEN Func(name)
         ELSE Undefined
    [] OTHER ->
         IF name \in ObjectPrototypeNames THEN Func(name) ELSE Undefined

IsNullish(v) == v.t \in {"null", "undefined"}

\* ------------------------------------------------------------------------
\* The evaluate routes' response to a reply text
\* ------------------------------------------------------------------------

\* A response: status, and the body's fields (hasParsed: the body carries a
\* "parsed" field at all).
Response(status, ok, raw, hasParsed, parsed, error) ==
  [status |-> status, ok |-> ok, raw |-> raw, hasParsed |-> hasParsed,
   parsed |-> parsed, error |-> error]

NoText == <<>>

ErrorResponse(status, message) ==
  Response(status, FALSE, NoText, FALSE, Undefined, message)

\* server.js, once tryParseJSON(raw) has given `parsed`: a truthy value is
\* sent along, else raw alone.
ExpressRespond(raw, parsed) ==
  IF parsed.threw THEN ErrorResponse(500, parsed.value.s)
  ELSE IF Truthy(parsed.value)
    THEN Response(200, TRUE, raw, TRUE, parsed.value, NoText)
    ELSE Response(200, TRUE, raw, FALSE, Undefined, NoText)

\* index.js, once tryParseJSON(raw) has given `parsed`: raw and parsed are
\* always sent.
LambdaRespond(raw, parsed) ==
  IF parsed.threw THEN ErrorResponse(500, parsed.value.s)
  ELSE Response(200, TRUE, raw, TRUE, parsed.value, NoText)

Respond(impl, raw, parsed) ==
  IF impl = "express" THEN ExpressRespond(raw, parsed)
  ELSE LambdaRespond(raw, parsed)

\* const parsed = tryParseJSON(raw), and the response built from it.
ReplyResponse(impl, raw) == Respond(impl, raw, tryParseJSON(raw))

\* ------------------------------------------------------------------------
\* Result extraction in the frontend
\* ------------------------------------------------------------------------

\* What a render call leaves on the page: it threw, or it showed the entries
\* and suggestions it recovered, or it fell back to the raw text.
Rendered(metricResults, commonImprovements, showsRaw, rawText) ==
  [threw |-> FALSE, metricResults |-> metricResults,
   commonImprovements |-> commonImprovements, showsRaw |-> showsRaw,
   rawText |-> rawText]

RenderThrew(rawText) ==
  [threw |-> TRUE, metricResults |-> <<>>, commonImprovements |-> <<>>,
   showsRaw |-> FALSE, rawText |-> rawText]

\* The fields of an entry that the page shows.
Shown(m) == [metric |-> Get(m, kMetric), score |-> Get(m, kScore),
             feedback |-> Get(m, kFeedback)]

\* Object.values(v): own property values in order (a string's characters).
ObjectValues(v) ==
  CASE v.t = "obj" -> v.vals
    [] v.t = "arr" -> v.items
    [] v.t = "str" -> [k \in 1..Len(v.s) |-> Str(<<v.s[k]>>)]
    [] OTHER -> <<>>

\* v => v && v.metric && v.score
ResultLike(v) ==
  Truthy(v) /\ Truthy(Get(v, kMetric)) /\ Truthy(Get(v, kScore))

RECURSIVE FilterSeq(_, _)
FilterSeq(s, k) ==
  IF k > Len(s) THEN <<>>
  ELSE (IF ResultLike(s[k]) THEN <<s[k]>> ELSE <<>>) \o FilterSeq(s, k + 1)

\* A variant, for comparison: entries are looked for under the two keys only.
MetricsArr_KeysOnly(parsed) ==
  IF parsed.t = "arr" THEN parsed
  ELSE IF Truthy(Get(parsed, kMetrics)) THEN Get(parsed, kMetrics)
  ELSE IF Truthy(Get(parsed, kResults)) THEN Get(parsed, kResults)
  ELSE Arr(<<>>)

\* renderAllResults: the array of entries it settles on.
MetricsArr(parsed) ==
  IF parsed.t = "arr" THEN parsed
  ELSE IF Truthy(Get(parsed, kMetrics)) THEN Get(parsed, kMetrics)
  ELSE IF Truthy(Get(parsed, kResults)) THEN Get(parsed, kResults)
  ELSE Arr(FilterSeq(ObjectValues(parsed), 1))

renderAllResults(payload) ==
  IF payload.hasParsed /\ Truthy(payload.parsed) THEN
    LET parsed == payload.parsed
        metricsArr == MetricsArr(parsed)
        hasLength == Truthy(Get(metricsArr, kLength))
        common == Get(parsed, kCommon) IN
    \* metricsArr.forEach(...) exists on arrays only; m.metric needs an m
    \* that is not null
    IF hasLength /\ metricsArr.t # "arr" THEN RenderThrew(payload.raw)
    ELSE IF hasLength /\ \E k \in 1..Len(metricsArr.items) :
                            IsNullish(metricsArr.items[k])
      THEN RenderThrew(payload.raw)
    \* parsed.common_improvements.map(...) exists on arrays only
    ELSE IF Truthy(common) /\ common.t # "arr" THEN RenderThrew(payload.raw)
    ELSE
      LET results == IF hasLength
                       THEN [k \in 1..Len(metricsArr.items) |->
                               Shown(metricsArr.items[k])]
                       ELSE <<>>
          suggestions == IF Truthy(common) THEN common.items ELSE <<>> IN
      Rendered(results, suggestions, ~hasLength /\ ~Truthy(common),
               payload.raw)
  ELSE Rendered(<<>>, <<>>, TRUE, payload.raw)

\* x.metric && x.metric.includes(metric): its truth, or that it threw.
MatchThrows(x, metric) ==
  \/ IsNullish(x)
  \/ /\ Truthy(Get(x, kMetric))
     /\ Get(x, kMetric).t \notin {"str", "arr"}

\* A stricter match, for comparison: the entry's metric equals the requested
\* name.
Matches_Exact(x, metric) ==
  LET m == Get(x, kMetric) IN
  /\ Truthy(m)
  /\ IF m.t = "str" THEN m.s = metric
     ELSE \E k \in 1..Len(m.items) : m.items[k] = Str(metric)

Matches(x, metric) ==
  LET m == Get(x, kMetric) IN
  /\ Truthy(m)
  /\ IF m.t = "str" THEN includes(m.s, metric)
     ELSE \E k \in 1..Len(m.items) : m.items[k] = Str(metric)

\* items.find(x => x.metric && x.metric.includes(metric)) from position k.
RECURSIVE Find(_, _, _)
Find(items, k, metric) ==
  IF k > Len(items) THEN Return(Undefined)
  ELSE IF MatchThrows(items[k], metric) THEN Throw("TypeError")
  ELSE IF Matches(items[k], metric) THEN Return(items[k])
  ELSE Find(items, k + 1, metric)

\* renderMetricResult: the entry it finds for the requested metric.
Found(p, metric) ==
  IF p.t = "arr" THEN Find(p.items, 1, metric)
  ELSE IF MatchThrows(p, metric) THEN Throw("TypeError")
  ELSE IF Matches(p, metric) THEN Return(p)
  ELSE IF Truthy(Get(p, kResults))
    THEN IF Get(p, kResults).t = "arr"
           THEN Find(Get(p, kResults).items, 1, metric)
           ELSE Throw("TypeError")
  ELSE IF Get(p, kMetrics).t = "arr"
    THEN Find(Get(p, kMetrics).items, 1, metric)
  ELSE Return(Null)

renderMetricResult(metric, payload) ==
  IF payload.hasParsed /\ Truthy(payload.parsed) THEN
    LET found == Found(payload.parsed, metric) IN
    IF found.threw THEN RenderThrew(payload.raw)
    ELSE IF Truthy(found.value)
      THEN Rendered(<<Shown(found.value)>>, <<>>, FALSE, payload.raw)
      ELSE Rendered(<<>>, <<>>, TRUE, payload.raw)
  ELSE Rendered(<<>>, <<>>, TRUE, payload.raw)

\* ------------------------------------------------------------------------
\* constructPrompt
\* ------------------------------------------------------------------------

\* The metric catalog, each name one atom.
METRICS == <<
  Str(<<"Clarity of problem articulation">>),
  Str(<<"Purpose statement strength">>),
  Str(<<"Logical flow of explanation">>),
  Str(<<"Audience understanding level">>),
  Str(<<"Concept simplification quality">>),
  Str(<<"Technical accuracy of explanations">>),
  Str(<<"Confidence in voice delivery">>),
  Str(<<"Degree of passion conveyed">>),
  Str(<<"Pacing and speed of narration">>),
  Str(<<"Structural clarity of content">>),
  Str(<<"Visual organization without styling">>),
  Str(<<"Completeness of topic coverage">>),
  Str(<<"Engagement level of the explanation">>),
  Str(<<"Reasoning transparency">>),
  Str(<<"Justification of technical decisions">>),
  Str(<<"Clarity of transitions between topics">>),
  Str(<<"Interview-readiness of communication">>),
  Str(<<"Problem-solving mindset demonstration">>),
  Str(<<"Career-oriented presentation quality">>) >>

\* sep-joined concatenation of a sequence of strings: parts.join(sep).
RECURSIVE JoinFrom(_, _, _)
JoinFrom(parts, sep, k) ==
  IF k > Len(parts) THEN <<>>
  ELSE (IF k > 1 THEN sep ELSE <<>>) \o parts[k] \o JoinFrom(parts, sep, k + 1)

Join(parts, sep) == JoinFrom(parts, sep, 1)

\* String conversion in a template literal, `${v}`.
RECURSIVE ToString(_)
ToString(v) ==
  CASE v.t = "str" -> v.s
    [] v.t = "undefined" -> <<"undefined">>
    [] v.t = "null" -> <<"null">>
    [] v.t = "bool" -> IF v.b THEN <<"true">> ELSE <<"false">>
    [] v.t = "num" -> NumStr(v.n)
    [] v.t = "func" ->
         <<"function ">>
         \o (IF v.name = <<"constructor">> THEN <<"Object">> ELSE v.name)
         \o <<"() { [native code] }">>
    [] v.t = "arr" ->
         Join([k \in 1..Len(v.items) |->
                 IF IsNullish(v.items[k]) THEN <<>> ELSE ToString(v.items[k])],
              <<",">>)
    [] OTHER -> <<"[object Object]">>

\* a || b
Or(a, b) == IF Truthy(a) THEN a ELSE b

UnknownTitle == Str(<<"Unknown Title">>)

HeaderText == "You are an expert reviewer for YouTube educational videos. Evaluate the following video and provide for each requested metric a numeric score from 1 (poor) to 10 (excellent) and a concise actionable feedback section with suggestions."

InstructionText == "Return a JSON object. For each metric include: { \"metric\": \"<name>\", \"score\": <1-10>, \"feedback\": \"<actionable feedback>\" } and at the end add a field \"common_improvements\" with an array of top 5 cross-metric suggestions. Output only valid JSON."

\* The labels of the request block, in the order of the template.
Labels == <<"Video URL: ", "Title: ", "Video Type: ", "Purpose: ",
            "Key Concepts: ", "Justifications: ", "Evaluation Goal: ">>

FieldText(v) == ToString(v)

\* A variant, for comparison: the list is numbered from the array index, starting at 0.
MetricLine_FromZero(i, m) == NumStr(i) \o <<". ">> \o ToString(m)

\* (m, i) => `${i + 1}. ${m}` for the 0-based index i.
MetricLine(i, m) == NumStr(i + 1) \o <<". ">> \o ToString(m)

constructPrompt(details, metricList) ==
  LET header == <<HeaderText>>
      videoInfo ==
        <<Labels[1]>> \o FieldText(details.url) \o <<"\n">>
        \o <<Labels[2]>> \o FieldText(Or(details.title, UnknownTitle)) \o <<"\n">>
        \o <<Labels[3]>> \o FieldText(details.videoType) \o <<"\n">>
        \o <<Labels[4]>> \o FieldText(details.purpose) \o <<"\n">>
        \o <<Labels[5]>> \o FieldText(details.keyConcepts) \o <<"\n">>
        \o <<Labels[6]>> \o FieldText(details.justifications) \o <<"\n">>
        \o <<Labels[7]>> \o FieldText(details.goal)
      metricsText ==
        Join([k \in 1..Len(metricList) |-> MetricLine(k - 1, metricList[k])],
             <<"\n">>)
      instruction == <<InstructionText>>
  IN Join(<<header, videoInfo, <<"Metrics to evaluate:">>, metricsText,
            instruction>>, <<"\n", "\n">>)

\* ------------------------------------------------------------------------
\* callGemini
\* ------------------------------------------------------------------------

MissingKeyMessage(impl) ==
  IF impl = "express" THEN <<"GEMINI_API_KEY not set in environment">>
  ELSE <<"GEMINI_API_KEY not set in environment variables">>

\* What the network does with the REST call: the fetch rejects, or answers
\* with a status and a body text, or answers 2xx with a JSON body `data`.
NetworkFailure == [kind |-> "network", status |-> 0, text |-> <<>>,
                   data |-> Undefined]

StatusFailure(status, text) == [kind |-> "status", status |-> status,
                                text |-> text, data |-> Undefined]

Answer(data) == [kind |-> "ok", status |-> 200, text |-> <<>>, data |-> data]

\* A 2xx answer whose body is not JSON: resp.json() rejects.
NotJson == [kind |-> "notjson", status |-> 200, text |-> <<>>,
            data |-> Undefined]

\* x?.name
OptGet(x, name) == IF IsNullish(x) THEN Undefined ELSE Get(x, name)

\* What callGemini returns for a 2xx body `data` that is not null: the first
\* of data.output (a string), data.output[0].content,
\* data.choices[0].message.content that is there, else JSON.stringify(data).
ReplyText(data) ==
  LET output == Get(data, <<"output">>)
      choices == Get(data, <<"choices">>) IN
  IF Truthy(output) /\ output.t = "str" THEN output
  ELSE IF /\ Truthy(output) /\ output.t = "arr"
          /\ Truthy(OptGet(Get(output, kZero), <<"content">>))
    THEN Get(Get(output, kZero), <<"content">>)
  ELSE IF /\ Truthy(choices)
          /\ Truthy(OptGet(OptGet(Get(choices, kZero), <<"message">>),
                           <<"content">>))
    THEN Get(Get(Get(choices, kZero), <<"message">>), <<"content">>)
  ELSE Str(Stringify(data))

\* The REST call of callGemini, entered once the key is known to be set.
RestCall(outcome) ==
  CASE outcome.kind = "network" -> Throw("fetch failed")
    [] outcome.kind = "status" ->
         ThrowMsg(<<"Gemini API error ">> \o NumStr(outcome.status)
                  \o <<": ">> \o outcome.text)
    [] outcome.kind = "notjson" ->
         Throw("Unexpected token in JSON")
    [] IsNullish(outcome.data) ->
         Throw("Cannot read properties of null (reading 'output')")
    [] OTHER -> Return(ReplyText(outcome.data))

\* The SDK packages callGemini tries, in order.
sdkCandidates ==
  <<"@google-ai/generative", "@google/generative-ai", "@google/generative">>

\* An SDK package as callGemini sees it: whether import finds it, and for
\* each client name it may export what using that client does. "absent": not
\* exported; "resolves": the call resolves with res; "throws": the
\* constructor or the call throws; for Generative also "nomethod" (the
\* client has no generateText) and "notfunction" (the export is not a
\* function).
SdkModule(found, tsc, gen, tc, res) ==
  [found |-> found, TextServiceClient |-> tsc, Generative |-> gen,
   TextsClient |-> tc, res |-> res]

NotInstalled == SdkModule(FALSE, "absent", "absent", "absent", Undefined)

\* What one client does inside the inner try.
ClientCall(state, res) ==
  CASE state = "resolves" -> [kind |-> "returned", value |-> Str(Stringify(res))]
    [] state \in {"throws", "notfunction"} ->
         [kind |-> "threw", value |-> Undefined]
    [] OTHER -> [kind |-> "unavailable", value |-> Undefined]

\* The loop body of server/geminiClient.js for one package: TextServiceClient,
\* then Generative if it is a function whose client has generateText, then
\* TextsClient.
SdkCallExpress(mod) ==
  IF ~mod.found THEN ClientCall("absent", Undefined)
  ELSE IF mod.TextServiceClient # "absent"
    THEN ClientCall(mod.TextServiceClient, mod.res)
  ELSE IF mod.Generative \in {"resolves", "throws"}
    THEN ClientCall(mod.Generative, mod.res)
  ELSE ClientCall(mod.TextsClient, mod.res)

\* The loop body of the Lambda's geminiClient.js: TextServiceClient, then
\* TextsClient, then Generative (constructed without a typeof check).
SdkCallLambda(mod) ==
  IF ~mod.found THEN ClientCall("absent", Undefined)
  ELSE IF mod.TextServiceClient # "absent"
    THEN ClientCall(mod.TextServiceClient, mod.res)
  ELSE IF mod.TextsClient # "absent"
    THEN ClientCall(mod.TextsClient, mod.res)
  ELSE ClientCall(mod.Generative, mod.res)

SdkCall(impl, mod) ==
  IF impl = "express" THEN SdkCallExpress(mod) ELSE SdkCallLambda(mod)

\* ------------------------------------------------------------------------
\* The evaluate routes
\* ------------------------------------------------------------------------

Impls == {"express", "lambda"}

EvaluateRoutes == {"evaluate-metric", "evaluate-all"}

\* const { url, ..., metric } = body throws a TypeError when body is null
\* (JSON.parse of the event body "null"); any other JSON value destructures.
DestructureThrows(body) == body.t = "null"

DestructureMessage ==
  <<"Cannot destructure property 'url' of 'body' as it is null.">>

\* if (!url || !metric) on the single-metric route, if (!url) on the other.
MissingRequired(route, body) ==
  IF route = "evaluate-metric"
    THEN ~Truthy(body.url) \/ ~Truthy(body.metric)
    ELSE ~Truthy(body.url)

ValidationMessage(route) ==
  IF route = "evaluate-metric" THEN <<"Missing url or metric">>
  ELSE <<"Missing url">>

\* const title = db[url] || 'Unknown Title' (a property name is a string).
TitleFor(dbv, url) == Or(Get(dbv, ToString(url)), UnknownTitle)

Details(dbv, body) ==
  [url |-> body.url, videoType |-> body.videoType, purpose |-> body.purpose,
   keyConcepts |-> body.keyConcepts, justifications |-> body.justifications,
   goal |-> body.goal, title |-> TitleFor(dbv, body.url)]

MetricList(route, body) ==
  IF route = "evaluate-metric" THEN <<body.metric>> ELSE METRICS

\* The prompt a handler builds after reading the title store.
PromptFor(dbv, route, body) ==
  constructPrompt(Details(dbv, body), MetricList(route, body))

FallbackMessage(impl) ==
  IF impl = "express" THEN <<"Evaluation failed">> ELSE <<"Internal error">>

\* catch (err): err.message || fallback, as a server error.
CaughtResponse(impl, err) ==
  ErrorResponse(500, IF err.s # <<>> THEN err.s ELSE FallbackMessage(impl))

\* A variant, for comparison: a rejected call is made again.
OnSettled_Retry(r, settled) ==
  IF settled.threw
    THEN [r EXCEPT !.pc = "reading"]
    ELSE [r EXCEPT !.pc = "done",
                   !.resp = ReplyResponse(r.impl, settled.value.s)]

\* The request r once callGemini has settled: the reply is parsed and sent,
\* a rejection is caught and sent as a server error.
OnSettled(r, settled) ==
  IF settled.threw
    THEN [r EXCEPT !.pc = "done",
                   !.resp = CaughtResponse(r.impl, settled.value)]
    ELSE [r EXCEPT !.pc = "done",
                   !.resp = ReplyResponse(r.impl, settled.value.s)]

\* ------------------------------------------------------------------------
\* Bounds and input sets
\* ------------------------------------------------------------------------

\* Longest arbitrary reply text (in atoms).
MaxShortLen == 3

\* Most entries in a generated reply document.
MaxEntries == 2

\* Longest metric list handed to constructPrompt (besides the catalog).
MaxMetrics == 3

\* Cap on callGemini invocations counted for one request.
MaxCalls == 3

SeqsUpTo(S, n) == UNION {[1..k -> S] : k \in 0..n}

\* Arbitrary short texts: braces, brackets, quotes, digits, a letter.
ShortAlphabet == {"{", "}", "[", "]", "\"", "0", "1", "a"}

ShortTexts == SeqsUpTo(ShortAlphabet, MaxShortLen)

ReqMetric1 == <<"Clarity of problem articulation">>

ReqMetric2 == <<"Pacing and speed of narration">>

\* Metric labels a reply may carry: reworded, differently cased, another one.
EntryMetrics == {ReqMetric1 \o <<" (partial)">>,
                 <<"clarity of problem articulation">>,
                 ReqMetric2}

Entry(metric, score, feedback) ==
  Obj(<<kMetric, kScore, kFeedback>>, <<Str(metric), Num(score), Str(feedback)>>)

Entries == {Entry(m, sc, <<"Good but rushed.">>) :
              m \in EntryMetrics, sc \in {7, 10}}

EntryLists == SeqsUpTo(Entries, MaxEntries)

ImprovementLists == {<<>>, <<Str(<<"Slow down.">>)>>}

\* { "<key>": [entries], "common_improvements": [...] }
DocUnderKey(key, es, imps) == Obj(<<key, kCommon>>, <<Arr(es), Arr(imps)>>)

\* { "metric_1": entry, ..., "common_improvements": [...] }
DocKeyed(es, imps) ==
  Obj([k \in 1..(Len(es) + 1) |->
         IF k <= Len(es) THEN <<"metric_">> \o NumStr(k) ELSE kCommon],
      [k \in 1..(Len(es) + 1) |-> IF k <= Len(es) THEN es[k] ELSE Arr(imps)])

DocumentedKinds == {"metrics", "results", "keyed"}

\* A generated reply: the value, and what it was generated from.
Source(kind, es, imps) ==
  [kind |-> kind, entries |-> es, improvements |-> imps,
   value |-> CASE kind = "metrics" -> DocUnderKey(kMetrics, es, imps)
               [] kind = "results" -> DocUnderKey(kResults, es, imps)
               [] kind = "keyed" -> DocKeyed(es, imps)
               [] kind = "array" -> Arr(es)
               [] kind = "entry" -> es[1]]

Sources ==
  {Source(kind, es, imps) :
     kind \in DocumentedKinds, es \in EntryLists, imps \in ImprovementLists}
  \cup {Source("array", es, <<>>) : es \in EntryLists}
  \cup {Source("entry", <<e>>, <<>>) : e \in Entries}

\* Replies that parse but hold no entries where the page looks for them.
OddValues ==
  {Arr(<<Null>>),
   Obj(<<kResults>>, <<Str(<<"none">>)>>),
   Obj(<<kMetrics>>, <<Obj(<<>>, <<>>)>>),
   Obj(<<kMetric>>, <<Num(3)>>),
   Obj(<<kCommon>>, <<Str(<<"Slow down.">>)>>)}

OddSources ==
  {[kind |-> "odd", entries |-> <<>>, improvements |-> <<>>, value |-> v] :
     v \in OddValues}

NoSource == [kind |-> "short", entries |-> <<>>, improvements |-> <<>>,
             value |-> Undefined]

\* Prose put before and after a reply document.
Prefixes == {<<>>, <<" ">>, <<"Here is the result:", " ">>,
             <<"Scores", " ", "{", "1-10", "}", ":", " ">>, <<"[">>}

Suffixes == {<<>>, <<" ">>, <<" ", "Thanks!">>,
             <<" ", "{", "end", "}">>, <<"]">>}

\* The inputs of a normalisation run: prose is put around the shorter
\* documents only.
NormInputs ==
  {[pre |-> <<>>, doc |-> t, post |-> <<>>, src |-> NoSource] : t \in ShortTexts}
  \cup {[pre |-> <<>>, doc |-> Stringify(s.value), post |-> <<>>, src |-> s] :
          s \in Sources \cup OddSources}
  \cup {[pre |-> a, doc |-> Stringify(s.value), post |-> b, src |-> s] :
          a \in Prefixes, b \in Suffixes,
          s \in {x \in Sources : Len(x.entries) <= 1}}

\* What an evaluate request asks for: the route and the requested metric.
Modes == {[route |-> "evaluate-all", metric |-> <<>>],
          [route |-> "evaluate-metric", metric |-> ReqMetric1],
          [route |-> "evaluate-metric", metric |-> ReqMetric2]}

\* Request bodies of the evaluate routes.
Urls == {Undefined, Str(<<>>), Str(<<"v1">>), Str(<<"constructor">>)}

MetricValues == {Undefined, Str(ReqMetric2)}

Body(url, metric, videoType, purpose, rest) ==
  [t |-> "obj", url |-> url, metric |-> metric, videoType |-> videoType,
   purpose |-> purpose, keyConcepts |-> rest, justifications |-> rest,
   goal |-> rest]

Bodies ==
  {Body(u, m, Undefined, Undefined, Undefined) : u \in Urls, m \in MetricValues}
  \cup {Body(u, m, Str(<<"tutorial">>), Str(<<"teach X">>), Undefined) :
          u \in Urls, m \in MetricValues}
  \cup {Body(u, m, Str(<<"tutorial">>), Undefined, Str(<<"basics">>)) :
          u \in Urls, m \in MetricValues}

\* What a handler destructures: express.json() hands over an object, the
\* Lambda handler parses the event body itself, which may be the text "null".
RequestBodies(impl) == IF impl = "lambda" THEN Bodies \cup {Null} ELSE Bodies

\* The title store's contents: empty, or a title stored for v1.
Stores == {Obj(<<>>, <<>>), Obj(<<<<"v1">>>>, <<Str(<<"Intro to X">>)>>)}

\* process.env.GEMINI_API_KEY
ApiKeys == {Undefined, Str(<<"key">>)}

\* Reply texts of the service in the handler model.
ReplyTexts ==
  {Stringify(DocUnderKey(kMetrics, <<Entry(ReqMetric2, 7, <<"ok">>)>>, <<>>)),
   <<"Here is the result:", " ">>
     \o Stringify(Entry(ReqMetric2, 7, <<"ok">>)) \o <<" ", "Thanks!">>,
   <<"I cannot evaluate this video.">>,
   <<"{", "oops", "}">>,
   <<"null">>,
   <<"[", "1", "]">>}

Outcomes ==
  {NetworkFailure, StatusFailure(500, <<"quota exceeded">>)}
  \cup {Answer(Obj(<<<<"output">>>>, <<Str(t)>>)) : t \in ReplyTexts}
  \cup {Answer(Obj(<<>>, <<>>))}

\* What a client call of an SDK resolves with.
SdkResult == Obj(<<<<"candidates">>>>, <<Arr(<<Str(<<"hi">>)>>)>>)

\* States of an SDK package.
SdkModules ==
  {NotInstalled,
   SdkModule(TRUE, "absent", "absent", "absent", Undefined),
   SdkModule(TRUE, "resolves", "absent", "absent", SdkResult),
   SdkModule(TRUE, "throws", "absent", "resolves", SdkResult),
   SdkModule(TRUE, "absent", "resolves", "throws", SdkResult),
   SdkModule(TRUE, "absent", "throws", "absent", Undefined),
   SdkModule(TRUE, "absent", "nomethod", "resolves", SdkResult),
   SdkModule(TRUE, "absent", "notfunction", "absent", Undefined),
   SdkModule(TRUE, "absent", "absent", "throws", Undefined)}

\* Bodies of a 2xx answer of the REST endpoint.
Content(v) == Obj(<<<<"content">>>>, <<v>>)

AnswerBodies ==
  {Obj(<<<<"output">>>>, <<Str(<<"All good.">>)>>),
   Obj(<<<<"output">>>>, <<Arr(<<Content(Str(<<"All good.">>))>>)>>),
   Obj(<<<<"output">>>>, <<Arr(<<Content(Obj(<<<<"parts">>>>,
                                             <<Arr(<<>>)>>))>>)>>),
   Obj(<<<<"output">>>>, <<Arr(<<>>)>>),
   Obj(<<<<"choices">>>>,
       <<Arr(<<Obj(<<<<"message">>>>, <<Content(Str(<<"All good.">>))>>)>>)>>),
   Obj(<<<<"choices">>>>,
       <<Arr(<<Obj(<<<<"message">>>>, <<Content(Num(7))>>)>>)>>),
   Obj(<<<<"choices">>>>, <<Arr(<<Null>>)>>),
   Obj(<<>>, <<>>),
   Num(0),
   Null}

\* Outcomes of the REST call in the callGemini model.
GemOutcomes ==
  {NetworkFailure, NotJson, StatusFailure(500, <<"quota exceeded">>),
   StatusFailure(404, <<>>)}
  \cup {Answer(d) : d \in AnswerBodies}

\* POST /api/video-title requests in flight at once.
MaxHandlers == 2

Handlers == 1..MaxHandlers

\* ------------------------------------------------------------------------
\* State
\* ------------------------------------------------------------------------

VARIABLES
  db,      \* the title store of each deployment (videoDetails.json)
  apiKey,  \* process.env.GEMINI_API_KEY
  req,     \* the evaluate request in flight and how far its handler is
  calls,   \* callGemini invocations made for the request in flight
  norm,    \* a normalisation run: reply text, response, what the page shows
  pb,      \* constructPrompt called twice on the same arguments
  gem,     \* a callGemini call: the installed packages and how far it is
  posts    \* the POST /api/video-title handlers in flight

vars == <<db, apiKey, req, calls, norm, pb, gem, posts>>

NoResponse == ErrorResponse(0, NoText)

EmptyBody == Body(Undefined, Undefined, Undefined, Undefined, Undefined)

IdleReq == [pc |-> "idle", impl |-> "express", route |-> "evaluate-all",
            body |-> EmptyBody, prompt |-> <<>>, settled |-> Return(Undefined),
            resp |-> NoResponse]

NoRender == Rendered(<<>>, <<>>, FALSE, <<>>)

IdleNorm == [stage |-> "idle", pre |-> <<>>, doc |-> <<>>, post |-> <<>>,
             src |-> NoSource, impl |-> "express", route |-> "evaluate-all",
             metric |-> <<>>, parsed |-> Return(Undefined),
             payload |-> NoResponse, out |-> NoRender]

NoDetails == [url |-> Undefined, videoType |-> Undefined, purpose |-> Undefined,
              keyConcepts |-> Undefined, justifications |-> Undefined,
              goal |-> Undefined, title |-> Undefined]

\* A callGemini call that has not started; no SDK package is installed.
IdleGem == [pc |-> "idle", impl |-> "express", k |-> 1, tried |-> <<>>,
            sdks |-> [k \in 1..Len(sdkCandidates) |-> NotInstalled],
            outcome |-> NetworkFailure, settled |-> Return(Undefined)]

\* A POST /api/video-title handler that has not started.
IdlePost == [pc |-> "idle", url |-> Undefined, title |-> Undefined,
             local |-> Obj(<<>>, <<>>), status |-> 0]

IdlePosts == [h \in Handlers |-> IdlePost]

\* prompt and again are the results of the first and the second call; store
\* is the title store as it was at the first call.
IdlePb == [stage |-> "idle", details |-> NoDetails, metricList |-> <<>>,
           prompt |-> <<>>, again |-> <<>>,
           store |-> [i \in Impls |-> Obj(<<>>, <<>>)]]

\* ------------------------------------------------------------------------
\* The evaluate handlers (server.js, index.js)
\* ------------------------------------------------------------------------

\* A request arrives; the handler destructures and validates its body and,
\* if it passes, starts reading the title store.
Submit(impl, route, body) ==
  /\ req.pc = "idle"
  /\ req' = IF DestructureThrows(body)
              THEN [IdleReq EXCEPT !.pc = "done", !.impl = impl,
                      !.route = route, !.body = body,
                      !.resp = CaughtResponse(impl, Str(DestructureMessage))]
            ELSE IF MissingRequired(route, body)
              THEN [IdleReq EXCEPT !.pc = "done", !.impl = impl,
                      !.route = route, !.body = body,
                      !.resp = ErrorResponse(400, ValidationMessage(route))]
              ELSE [IdleReq EXCEPT !.pc = "reading", !.impl = impl,
                      !.route = route, !.body = body]
  /\ calls' = 0
  /\ UNCHANGED <<db, apiKey, norm, pb, gem, posts>>

\* A variant, for comparison: the handler also stores the title it used.
ReadAndCall_StoresTitle ==
  /\ req.pc = "reading"
  /\ calls < MaxCalls
  /\ calls' = calls + 1
  /\ \E prompt \in {PromptFor(db[req.impl], req.route, req.body)} :
       IF Truthy(apiKey)
         THEN req' = [req EXCEPT !.pc = "calling", !.prompt = prompt]
         ELSE \E settled \in {ThrowMsg(MissingKeyMessage(req.impl))} :
                req' = OnSettled([req EXCEPT !.prompt = prompt,
                                             !.settled = settled], settled)
  /\ db' = [db EXCEPT ![req.impl] =
              ObjPut(db[req.impl], ToString(req.body.url),
                     TitleFor(db[req.impl], req.body.url))]
  /\ UNCHANGED <<apiKey, norm, pb, gem, posts>>

\* readVideoDB resolves; the handler builds the prompt and calls callGemini,
\* which rejects at once when no key is configured.
ReadAndCall ==
  /\ req.pc = "reading"
  /\ calls < MaxCalls
  /\ calls' = calls + 1
  /\ \E prompt \in {PromptFor(db[req.impl], req.route, req.body)} :
       IF Truthy(apiKey)
         THEN req' = [req EXCEPT !.pc = "calling", !.prompt = prompt]
         ELSE \E settled \in {ThrowMsg(MissingKeyMessage(req.impl))} :
                req' = OnSettled([req EXCEPT !.prompt = prompt,
                                             !.settled = settled], settled)
  /\ UNCHANGED <<db, apiKey, norm, pb, gem, posts>>

\* callGemini settles; the handler parses the reply and responds.
Settle(outcome) ==
  /\ req.pc = "calling"
  /\ \E settled \in {RestCall(outcome)} :
       req' = OnSettled([req EXCEPT !.settled = settled], settled)
  /\ UNCHANGED <<db, apiKey, calls, norm, pb, gem, posts>>

\* The response is sent; the next request may arrive.
Complete ==
  /\ req.pc = "done"
  /\ req' = IdleReq
  /\ calls' = 0
  /\ UNCHANGED <<db, apiKey, norm, pb, gem, posts>>

Init ==
  /\ db \in [Impls -> Stores]
  /\ apiKey \in ApiKeys
  /\ req = IdleReq
  /\ calls = 0
  /\ norm = IdleNorm
  /\ pb = IdlePb
  /\ gem = IdleGem
  /\ posts = IdlePosts

Next ==
  \/ \E impl \in Impls, route \in EvaluateRoutes :
       \E body \in RequestBodies(impl) : Submit(impl, route, body)
  \/ ReadAndCall
  \/ \E outcome \in Outcomes : Settle(outcome)
  \/ Complete

Spec == Init /\ [][Next]_vars

\* ------------------------------------------------------------------------
\* Normalisation of a reply text, end to end: the route's response to the
\* reply and the frontend's extraction from it
\* ------------------------------------------------------------------------

NormText == norm.pre \o norm.doc \o norm.post

NormRespond ==
  /\ norm.stage = "raw"
  /\ \E parsed \in {tryParseJSON(NormText)} :
       norm' = [norm EXCEPT !.stage = "responded", !.parsed = parsed,
                  !.payload = Respond(norm.impl, NormText, parsed)]
  /\ UNCHANGED <<db, apiKey, req, calls, pb, gem, posts>>

NormRenderAll ==
  /\ norm.stage = "responded"
  /\ norm.route = "evaluate-all"
  /\ norm' = [norm EXCEPT !.stage = "rendered",
                          !.out = renderAllResults(norm.payload)]
  /\ UNCHANGED <<db, apiKey, req, calls, pb, gem, posts>>

NormRenderMetric ==
  /\ norm.stage = "responded"
  /\ norm.route = "evaluate-metric"
  /\ norm' = [norm EXCEPT !.stage = "rendered",
                          !.out = renderMetricResult(norm.metric, norm.payload)]
  /\ UNCHANGED <<db, apiKey, req, calls, pb, gem, posts>>

NormInit ==
  /\ db = [i \in Impls |-> Obj(<<>>, <<>>)]
  /\ apiKey = Undefined
  /\ req = IdleReq
  /\ calls = 0
  /\ pb = IdlePb
  /\ gem = IdleGem
  /\ posts = IdlePosts
  /\ \E in \in NormInputs, mode \in Modes, impl \in Impls :
       norm = [IdleNorm EXCEPT !.stage = "raw", !.pre = in.pre,
                 !.doc = in.doc, !.post = in.post, !.src = in.src,
                 !.impl = impl, !.route = mode.route, !.metric = mode.metric]

NormNext == NormRespond \/ NormRenderAll \/ NormRenderMetric

SpecNormalize == NormInit /\ [][NormNext]_vars

\* ------------------------------------------------------------------------
\* constructPrompt on its own
\* ------------------------------------------------------------------------

\* Metric names handed to constructPrompt: catalog names, and one that
\* spans two lines.
PromptMetrics == {Str(ReqMetric1), Str(ReqMetric2),
                  Str(<<"Depth", "\n", "and breadth">>)}

MetricLists == (SeqsUpTo(PromptMetrics, MaxMetrics) \ {<<>>}) \cup {METRICS}

FieldValues == {Undefined, Str(<<"tutorial">>)}

\* Titles handed over in details: none, empty, plain, and one holding a tab.
TitleValues == {Undefined, Str(<<>>), Str(<<"Intro to X">>),
                Str(<<"Intro", "\t", "to X">>)}

DetailSets ==
  [url : {Str(<<"v1">>)}, videoType : FieldValues, purpose : FieldValues,
   keyConcepts : FieldValues, justifications : FieldValues,
   goal : FieldValues, title : TitleValues]

\* Titles and urls posted to the title store.
PostedUrls == {Str(<<>>), Str(<<"v1">>)}

PostedTitles == {Undefined, Str(<<"Intro to X">>)}

\* POST /api/video-title: validate, read the store, set the title, write it.
SaveTitle(impl, url, title) ==
  /\ ~(~Truthy(url) \/ ~Truthy(title))
  /\ db' = [db EXCEPT ![impl] = ObjPut(db[impl], url.s, title)]
  /\ UNCHANGED <<apiKey, req, calls, norm, pb, gem, posts>>

\* The first call.
BuildPrompt ==
  /\ pb.stage = "args"
  /\ pb' = [pb EXCEPT !.stage = "built", !.store = db,
                      !.prompt = constructPrompt(pb.details, pb.metricList)]
  /\ UNCHANGED <<db, apiKey, req, calls, norm, gem, posts>>

\* A variant, for comparison: the second call takes the title from the
\* store as it is now.
BuildAgain_LiveTitle ==
  /\ pb.stage = "built"
  /\ \E live \in {[pb.details EXCEPT
                      !.title = TitleFor(db["express"], pb.details.url)]} :
       pb' = [pb EXCEPT !.stage = "rebuilt",
                        !.again = constructPrompt(live, pb.metricList)]
  /\ UNCHANGED <<db, apiKey, req, calls, norm, gem, posts>>

\* The second call, on the arguments of the first.
BuildAgain ==
  /\ pb.stage = "built"
  /\ pb' = [pb EXCEPT !.stage = "rebuilt",
                      !.again = constructPrompt(pb.details, pb.metricList)]
  /\ UNCHANGED <<db, apiKey, req, calls, norm, gem, posts>>

PromptInit ==
  /\ db = [i \in Impls |-> Obj(<<>>, <<>>)]
  /\ apiKey = Undefined
  /\ req = IdleReq
  /\ calls = 0
  /\ norm = IdleNorm
  /\ \E d \in DetailSets, ml \in MetricLists :
       pb = [IdlePb EXCEPT !.stage = "args", !.details = d, !.metricList = ml]
  /\ gem = IdleGem
  /\ posts = IdlePosts

PromptNext ==
  \/ BuildPrompt
  \/ BuildAgain
  \/ \E impl \in Impls, url \in PostedUrls, title \in PostedTitles :
       SaveTitle(impl, url, title)

SpecPrompt == PromptInit /\ [][PromptNext]_vars

\* ------------------------------------------------------------------------
\* callGemini, step by step
\* ------------------------------------------------------------------------

\* callGemini is entered: without a key it rejects, else it starts on the
\* SDK packages.
GemStart ==
  /\ gem.pc = "idle"
  /\ gem' = IF ~Truthy(apiKey)
              THEN [gem EXCEPT !.pc = "settled",
                      !.settled = ThrowMsg(MissingKeyMessage(gem.impl))]
              ELSE [gem EXCEPT !.pc = "sdk", !.k = 1]
  /\ UNCHANGED <<db, apiKey, req, calls, norm, pb, posts>>

\* The strategy after package k.
AfterSdk(g) ==
  IF g.k = Len(sdkCandidates) THEN [g EXCEPT !.pc = "rest"]
  ELSE [g EXCEPT !.k = g.k + 1]

\* A variant, for comparison: a client call that throws rejects callGemini.
GemSdk_NoInnerCatch ==
  /\ gem.pc = "sdk"
  /\ \E r \in {SdkCall(gem.impl, gem.sdks[gem.k])},
        g \in {[gem EXCEPT !.tried = Append(gem.tried, sdkCandidates[gem.k])]} :
       gem' = IF r.kind = "returned"
                THEN [g EXCEPT !.pc = "settled", !.settled = Return(r.value)]
              ELSE IF r.kind = "threw"
                THEN [g EXCEPT !.pc = "settled",
                               !.settled = Throw("SDK call failed")]
                ELSE AfterSdk(g)
  /\ UNCHANGED <<db, apiKey, req, calls, norm, pb, posts>>

\* One turn of the loop over sdkCandidates: the package's client returns, or
\* the package is skipped.
GemSdk ==
  /\ gem.pc = "sdk"
  /\ \E r \in {SdkCall(gem.impl, gem.sdks[gem.k])},
        g \in {[gem EXCEPT !.tried = Append(gem.tried, sdkCandidates[gem.k])]} :
       gem' = IF r.kind = "returned"
                THEN [g EXCEPT !.pc = "settled", !.settled = Return(r.value)]
                ELSE AfterSdk(g)
  /\ UNCHANGED <<db, apiKey, req, calls, norm, pb, posts>>

\* The REST call, after the last package.
GemRest(outcome) ==
  /\ gem.pc = "rest"
  /\ gem' = [gem EXCEPT !.pc = "settled", !.outcome = outcome,
                        !.tried = Append(gem.tried, "REST"),
                        !.settled = RestCall(outcome)]
  /\ UNCHANGED <<db, apiKey, req, calls, norm, pb, posts>>

GemInit ==
  /\ db = [i \in Impls |-> Obj(<<>>, <<>>)]
  /\ apiKey \in ApiKeys
  /\ req = IdleReq
  /\ calls = 0
  /\ norm = IdleNorm
  /\ pb = IdlePb
  /\ posts = IdlePosts
  /\ \E impl \in Impls, sdks \in [1..Len(sdkCandidates) -> SdkModules] :
       gem = [IdleGem EXCEPT !.impl = impl, !.sdks = sdks]

GemNext ==
  \/ GemStart
  \/ GemSdk
  \/ \E outcome \in GemOutcomes : GemRest(outcome)

SpecGemini == GemInit /\ [][GemNext]_vars

\* ------------------------------------------------------------------------
\* POST /api/video-title of the Express server, step by step: several
\* requests in flight over the one store file
\* ------------------------------------------------------------------------

StoreUrls == {Str(<<>>), Str(<<"v1">>), Str(<<"v2">>)}

StoreTitles == {Undefined, Str(<<"A">>), Str(<<"B">>)}

\* The store file after writeVideoDB(v), as the next readVideoDB parses it.
Written(v) == JSONparse(Stringify(v)).value

\* Request h arrives and is validated.
PostTitle(h, url, title) ==
  /\ posts[h].pc = "idle"
  /\ posts' = [posts EXCEPT ![h] =
       IF ~Truthy(url) \/ ~Truthy(title)
         THEN [IdlePost EXCEPT !.pc = "done", !.url = url, !.title = title,
                               !.status = 400]
         ELSE [IdlePost EXCEPT !.pc = "reading", !.url = url,
                               !.title = title]]
  /\ UNCHANGED <<db, apiKey, req, calls, norm, pb, gem>>

\* readVideoDB resolves with the file's content; the handler sets its key in
\* that copy and calls writeVideoDB.
PostRead(h) ==
  /\ posts[h].pc = "reading"
  /\ posts' = [posts EXCEPT ![h].pc = "writing",
                            ![h].local = ObjPut(db["express"], posts[h].url.s,
                                                posts[h].title)]
  /\ UNCHANGED <<db, apiKey, req, calls, norm, pb, gem>>

\* writeVideoDB replaces the file with the handler's copy.
PostWrite(h) ==
  /\ posts[h].pc = "writing"
  /\ db' = [db EXCEPT !["express"] = Written(posts[h].local)]
  /\ posts' = [posts EXCEPT ![h].pc = "written"]
  /\ UNCHANGED <<apiKey, req, calls, norm, pb, gem>>

\* res.json({ ok: true, url, title })
PostAck(h) ==
  /\ posts[h].pc = "written"
  /\ posts' = [posts EXCEPT ![h].pc = "done", ![h].status = 200]
  /\ UNCHANGED <<db, apiKey, req, calls, norm, pb, gem>>

\* The read or the write rejects: the catch answers 500.
PostFail(h) ==
  /\ posts[h].pc \in {"reading", "writing"}
  /\ posts' = [posts EXCEPT ![h].pc = "done", ![h].status = 500]
  /\ UNCHANGED <<db, apiKey, req, calls, norm, pb, gem>>

StoreInit ==
  /\ db = [i \in Impls |-> Obj(<<>>, <<>>)]
  /\ apiKey = Undefined
  /\ req = IdleReq
  /\ calls = 0
  /\ norm = IdleNorm
  /\ pb = IdlePb
  /\ gem = IdleGem
  /\ posts = IdlePosts

StoreNext ==
  \E h \in Handlers :
    \/ \E url \in StoreUrls, title \in StoreTitles : PostTitle(h, url, title)
    \/ PostRead(h)
    \/ PostWrite(h)
    \/ PostAck(h)
    \/ PostFail(h)

SpecStore == StoreInit /\ [][StoreNext]_vars

\* ------------------------------------------------------------------------
\* The evaluate routes beside POST /api/video-title
\* ------------------------------------------------------------------------

TitlesNext ==
  \/ Next
  \/ \E impl \in Impls, url \in PostedUrls, title \in PostedTitles :
       SaveTitle(impl, url, title)

SpecTitles == Init /\ [][TitlesNext]_vars

\* ------------------------------------------------------------------------
\* Properties of normalisation (SpecNormalize)
\* ------------------------------------------------------------------------

JsonTypes == {"null", "bool", "num", "str", "arr", "obj"}

HasBracePair(text) ==
  /\ indexOf(text, "{") # -1
  /\ lastIndexOf(text, "}") > indexOf(text, "{")

\* C1: for every reply text (empty, prose, unbalanced or malformed braces
\* included) tryParseJSON returns and never throws: it yields a parsed JSON
\* value, or null for a text it could not parse.
C1_NeverThrows ==
  norm.stage \in {"responded", "rendered"} =>
    /\ ~norm.parsed.threw
    /\ norm.parsed.value.t \in JsonTypes

\* A text whose braces enclose something that is not JSON was normalised.
C1_Witness ==
  /\ norm.stage = "responded"
  /\ HasBracePair(NormText)
  /\ JSONparse(NormText).threw
  /\ JSONparse(slice(NormText, indexOf(NormText, "{"),
                     lastIndexOf(NormText, "}") + 1)).threw
  /\ norm.parsed = Return(Null)

\* C2: a reply that is exactly the JSON of a document of the instructed
\* shape (N entries with metric, score and feedback under "metrics", under
\* "results" or as the object's own members, plus common_improvements) is
\* recovered by the all-metrics extraction as exactly those N entries, field
\* for field, and those suggestions.
C2_RoundTrip ==
  (/\ norm.stage = "rendered"
   /\ norm.route = "evaluate-all"
   /\ norm.src.kind \in DocumentedKinds
   /\ norm.pre = <<>>
   /\ norm.post = <<>>) =>
    /\ ~norm.out.threw
    /\ Len(norm.out.metricResults) = Len(norm.src.entries)
    /\ \A k \in 1..Len(norm.src.entries) :
         LET e == norm.src.entries[k] IN
         norm.out.metricResults[k] =
           [metric |-> e.vals[1], score |-> e.vals[2], feedback |-> e.vals[3]]
    /\ norm.out.commonImprovements = norm.src.improvements

\* Two entries held as the object's own members, with one suggestion, were
\* recovered.
C2_Witness ==
  /\ norm.stage = "rendered"
  /\ norm.route = "evaluate-all"
  /\ norm.src.kind = "keyed"
  /\ norm.pre = <<>>
  /\ norm.post = <<>>
  /\ Len(norm.src.entries) = 2
  /\ Len(norm.out.metricResults) = 2
  /\ norm.out.commonImprovements = <<Str(<<"Slow down.">>)>>

IsJsonObject(text) ==
  /\ ~JSONparse(text).threw
  /\ JSONparse(text).value.t = "obj"

Contains(text, a) == \E k \in 1..Len(text) : text[k] = a

\* C3 as stated: for every JSON object J and every prose P1, P2, normalising
\* P1 + J + P2 gives what normalising J gives.
C3_AnyProse ==
  (/\ norm.stage \in {"responded", "rendered"}
   /\ IsJsonObject(norm.doc)) =>
    norm.parsed = tryParseJSON(norm.doc)

\* C3 for brace-free prose: the same for P1 without "{" and P2 without "}"
\* such that P1 + J + P2 is not itself valid JSON.
C3_BraceFreeProse ==
  (/\ norm.stage \in {"responded", "rendered"}
   /\ IsJsonObject(norm.doc)
   /\ ~Contains(norm.pre, "{")
   /\ ~Contains(norm.post, "}")
   /\ JSONparse(NormText).threw) =>
    norm.parsed = tryParseJSON(norm.doc)

\* "Here is the result: {...} Thanks!" was normalised to the object.
C3_Witness ==
  /\ norm.stage = "responded"
  /\ norm.pre = <<"Here is the result:", " ">>
  /\ norm.post = <<" ", "Thanks!">>
  /\ Len(norm.src.entries) = 1
  /\ IsJsonObject(norm.doc)
  /\ norm.parsed.value.t = "obj"

NoDelimiters(text) == ~Contains(text, "{") /\ ~Contains(text, "}")

BothParsesFail(text) ==
  /\ JSONparse(text).threw
  /\ HasBracePair(text) =>
       JSONparse(slice(text, indexOf(text, "{"),
                       lastIndexOf(text, "}") + 1)).threw

\* C4: a reply with no "{" or "}" at all, or one for which the full parse
\* and the brace-delimited parse both fail, ends in the empty outcome (no
\* metric results, no suggestions, the raw text unchanged) and the route
\* still answers ok.
C4_EmptyOutcome ==
  (/\ norm.stage = "rendered"
   /\ NoDelimiters(NormText) \/ BothParsesFail(NormText)) =>
    /\ norm.payload.status = 200
    /\ norm.payload.ok
    /\ norm.payload.raw = NormText
    /\ ~norm.out.threw
    /\ norm.out.metricResults = <<>>
    /\ norm.out.commonImprovements = <<>>
    /\ norm.out.rawText = NormText

\* The first of the entries whose metric contains the requested name.
RECURSIVE FirstContaining(_, _, _)
FirstContaining(es, k, metric) ==
  IF k > Len(es) THEN <<>>
  ELSE IF includes(es[k].vals[1].s, metric)
    THEN <<[metric |-> es[k].vals[1], score |-> es[k].vals[2],
            feedback |-> es[k].vals[3]]>>
    ELSE FirstContaining(es, k + 1, metric)

\* C5: in single-metric mode the entry recovered from a reply (one entry, a
\* list of entries, or a list under "results" or "metrics") is the first
\* whose metric contains the requested name as a case-sensitive substring,
\* and none is recovered when no entry's metric contains it.
C5_SubstringMatch ==
  (/\ norm.stage = "rendered"
   /\ norm.route = "evaluate-metric"
   /\ norm.src.kind \in {"entry", "array", "metrics", "results"}
   /\ norm.parsed = Return(norm.src.value)) =>
    /\ ~norm.out.threw
    /\ norm.out.metricResults =
         FirstContaining(norm.src.entries, 1, norm.metric)

\* The request for "Clarity of problem articulation" recovered the entry
\* labelled "Clarity of problem articulation (partial)" with score 7.
C5_Witness ==
  /\ norm.stage = "rendered"
  /\ norm.route = "evaluate-metric"
  /\ norm.metric = <<"Clarity of problem articulation">>
  /\ norm.src.kind = "entry"
  /\ norm.out.metricResults =
       <<[metric |-> Str(<<"Clarity of problem articulation", " (partial)">>),
          score |-> Num(7), feedback |-> Str(<<"Good but rushed.">>)]>>

\* ------------------------------------------------------------------------
\* Properties of constructPrompt (SpecPrompt)
\* ------------------------------------------------------------------------

\* The lines "1. <m[1]>" .. "n. <m[n]>", one after the other.
NumberedLines(metricList) ==
  Join([k \in 1..Len(metricList) |->
          NumStr(k) \o <<". ">> \o metricList[k].s], <<"\n">>)

\* C6: the prompt holds, right after the "Metrics to evaluate:" heading, the
\* lines "<i>. <m[i]>" for i = 1..n, consecutive, in list order, numbered
\* from 1 to n, and the closing instruction follows them.
C6_NumberedInOrder ==
  pb.stage = "built" =>
    includes(pb.prompt,
             <<"Metrics to evaluate:", "\n", "\n">>
             \o NumberedLines(pb.metricList)
             \o <<"\n", "\n", InstructionText>>)

C6_Witness ==
  /\ pb.stage = "built"
  /\ pb.metricList = METRICS
  /\ includes(pb.prompt,
              <<"\n", "1", "9", ". ", "Career-oriented presentation quality",
                "\n", "\n">>)

\* ------------------------------------------------------------------------
\* Properties of the evaluate routes (Spec)
\* ------------------------------------------------------------------------

\* The title stored for url: an own property of the store, if there is one.
HasStoredTitle(dbv, url) == \E n \in 1..Len(dbv.keys) : dbv.keys[n] = url

StoredTitle(dbv, url) == dbv.vals[CHOOSE n \in 1..Len(dbv.keys) : dbv.keys[n] = url]

\* A field as the specification has it: the value, or the placeholder when absent.
Placeholder(v) == IF v.t = "undefined" THEN <<"undefined">> ELSE v.s

\* The request block the specification promises for request r and store dbv.
RequestBlock(r, dbv) ==
  <<"Video URL: ">> \o Placeholder(r.body.url) \o <<"\n">>
  \o <<"Title: ">>
  \o (IF HasStoredTitle(dbv, r.body.url.s)
        THEN StoredTitle(dbv, r.body.url.s).s ELSE <<"Unknown Title">>)
  \o <<"\n">>
  \o <<"Video Type: ">> \o Placeholder(r.body.videoType) \o <<"\n">>
  \o <<"Purpose: ">> \o Placeholder(r.body.purpose) \o <<"\n">>
  \o <<"Key Concepts: ">> \o Placeholder(r.body.keyConcepts) \o <<"\n">>
  \o <<"Justifications: ">> \o Placeholder(r.body.justifications) \o <<"\n">>
  \o <<"Evaluation Goal: ">> \o Placeholder(r.body.goal)
  \o <<"\n", "\n", "Metrics to evaluate:">>

\* C8: the prompt of every evaluate request holds the seven labelled lines
\* in the order url, title, videoType, purpose, keyConcepts, justifications,
\* goal; an absent optional field shows as "undefined", never as a missing
\* line; the title line carries the stored title, or "Unknown Title" when
\* none is stored for the url.
C8_RequestBlock ==
  req.pc \in {"calling", "done"} /\ req.prompt # <<>> =>
    includes(req.prompt, <<"\n", "\n">> \o RequestBlock(req, db[req.impl]))

\* A request lacks a required field: its body has no url (or a falsy one),
\* or no metric on the single-metric route.
LacksRequired(route, body) ==
  \/ body.t = "null"
  \/ ~Truthy(body.url)
  \/ route = "evaluate-metric" /\ ~Truthy(body.metric)

\* C9: a request that lacks a required field is answered with a client
\* error, and callGemini is not invoked for it at any point of its handling.
C9_ValidationBeforeBackend ==
  (req.pc # "idle" /\ LacksRequired(req.route, req.body)) =>
    /\ req.pc = "done"
    /\ req.resp.status = 400
    /\ calls = 0

\* C10: when callGemini rejects, the request ends with a server error that
\* carries the rejection's message, and callGemini was invoked once for it.
C10_FailurePropagates ==
  /\ calls <= 1
  /\ (req.pc = "done" /\ req.settled.threw) =>
       /\ req.resp.status = 500
       /\ ~req.resp.ok
       /\ req.resp.error = req.settled.value.s
       /\ calls = 1

\* The service answered 500 and the request ended with that failure.
C10_Witness ==
  /\ req.pc = "done"
  /\ req.settled.threw
  /\ req.resp.status = 500
  /\ req.resp.error = <<"Gemini API error ", "5", "0", "0", ": ",
                        "quota exceeded">>
  /\ calls = 1

\* ------------------------------------------------------------------------
\* Properties of the title store (SpecTitles)
\* ------------------------------------------------------------------------

\* A step of an evaluate handler: the request in flight moves on.
EvaluateStep == req' # req \/ calls' # calls

\* C11: no step of an evaluate request, successful or failed, changes the
\* stored url-to-title mapping of either deployment; the mapping changes
\* only in a step of POST /video-title.
C11_EvaluateOnlyReads ==
  [][/\ EvaluateStep => db' = db
     /\ db' # db => \E impl \in Impls, url \in PostedUrls,
                       title \in PostedTitles : SaveTitle(impl, url, title)]_vars

\* An evaluate request used the stored title of its url and ended ok with
\* the title still stored.
C11_Witness ==
  /\ req.pc = "done"
  /\ req.resp.ok
  /\ req.body.url = Str(<<"v1">>)
  /\ db[req.impl] = Obj(<<<<"v1">>>>, <<Str(<<"Intro to X">>)>>)
  /\ includes(req.prompt, <<"Title: ", "Intro to X", "\n">>)

\* ------------------------------------------------------------------------
\* Properties of callGemini (SpecGemini)
\* ------------------------------------------------------------------------

\* The strategies in the order they are to be tried.
Strategies == sdkCandidates \o <<"REST">>

\* The packages and then the REST call are tried in that order, each one
\* only after the ones before it were unavailable or threw; without a key
\* the call rejects before trying any; a non-success status rejects with
\* "Gemini API error <status>: <body>".
ChainInOrder ==
  /\ gem.tried = SubSeq(Strategies, 1, Len(gem.tried))
  /\ \A j \in 1..Len(gem.tried) :
       (j < Len(gem.tried) \/ gem.pc # "settled") /\ j <= Len(sdkCandidates)
         => SdkCall(gem.impl, gem.sdks[j]).kind \in {"unavailable", "threw"}
  /\ gem.pc = "settled" /\ ~Truthy(apiKey) =>
       /\ gem.tried = <<>>
       /\ gem.settled = ThrowMsg(MissingKeyMessage(gem.impl))
  /\ gem.pc = "settled" /\ gem.tried = Strategies
       /\ gem.outcome.kind = "status" =>
       gem.settled = ThrowMsg(<<"Gemini API error ">>
                              \o NumStr(gem.outcome.status) \o <<": ">>
                              \o gem.outcome.text)

C13_ResolvesText ==
  gem.pc = "settled" /\ ~gem.settled.threw => gem.settled.value.t = "str"

\* ------------------------------------------------------------------------
\* More properties of constructPrompt (SpecPrompt)
\* ------------------------------------------------------------------------

\* C14: whatever the url, the title and the optional fields hold, the prompt
\* constructPrompt returns holds no control character other than the line
\* feed.
C14_NoControlChars ==
  pb.stage \in {"built", "rebuilt"} =>
    \A k \in 1..Len(pb.prompt) :
      IsControl(pb.prompt[k]) => pb.prompt[k] = "\n"

\* ------------------------------------------------------------------------
\* More properties of normalisation (SpecNormalize)
\* ------------------------------------------------------------------------

\* An object with a metric name and a score.
IsEntry(v) ==
  /\ v.t = "obj"
  /\ Get(v, kMetric).t = "str"
  /\ Get(v, kScore).t = "num"

\* The entries a parsed value offers in one of the candidate shapes: its own
\* items, the items under "results" or "metrics", or the value itself.
Candidates(v) ==
  IF v.t = "arr" THEN v.items
  ELSE IF v.t # "obj" THEN <<>>
  ELSE IF Get(v, kResults).t = "arr" THEN Get(v, kResults).items
  ELSE IF Get(v, kMetrics).t = "arr" THEN Get(v, kMetrics).items
  ELSE <<v>>

Unrecognised(v) ==
  \A k \in 1..Len(Candidates(v)) : ~IsEntry(Candidates(v)[k])

\* C15: for every reply that parsed, on either route, the page's extraction
\* does not throw, and when the parsed value holds no entry in any candidate
\* shape the metric results are empty and the raw text is still there.
C15_ToleratesShapes ==
  (/\ norm.stage = "rendered"
   /\ ~IsNullish(norm.parsed.value)) =>
    /\ ~norm.out.threw
    /\ Unrecognised(norm.parsed.value) =>
         /\ norm.out.metricResults = <<>>
         /\ norm.out.rawText = NormText

\* ------------------------------------------------------------------------
\* Properties of concurrent title writes (SpecStore)
\* ------------------------------------------------------------------------

Acknowledged(h) == posts[h].pc = "done" /\ posts[h].status = 200

\* C16: once every POST /video-title request in flight has completed, the
\* store holds, for the url of every request answered ok, the title of a
\* request answered ok for that url, however the requests interleaved.
C16_NoLostWrite ==
  (\A h \in Handlers : posts[h].pc = "done") =>
    \A h \in Handlers :
      Acknowledged(h) =>
        \E g \in Handlers :
          /\ Acknowledged(g)
          /\ posts[g].url = posts[h].url
          /\ HasStoredTitle(db["express"], posts[h].url.s)
          /\ StoredTitle(db["express"], posts[h].url.s) = posts[g].title

\* ------------------------------------------------------------------------
\* The two deployments compared (Spec)
\* ------------------------------------------------------------------------

OtherImpl(impl) == IF impl = "express" THEN "lambda" ELSE "express"

\* What the other deployment answers to the request in flight, given the
\* same body, the same stored titles and the same outcome of the service.
OtherResponse ==
  IF calls = 0 THEN
    IF MissingRequired(req.route, req.body)
      THEN ErrorResponse(400, ValidationMessage(req.route))
      ELSE NoResponse
  ELSE IF ~Truthy(apiKey)
    THEN CaughtResponse(OtherImpl(req.impl),
                        Str(MissingKeyMessage(OtherImpl(req.impl))))
  ELSE OnSettled([req EXCEPT !.impl = OtherImpl(req.impl)], req.settled).resp

\* The same status class and the same ok, raw and parsed fields.
SameFields(a, b) ==
  /\ a.status \div 100 = b.status \div 100
  /\ a.ok = b.ok
  /\ a.raw = b.raw
  /\ a.hasParsed = b.hasParsed
  /\ a.parsed = b.parsed

\* C17: for the same request body, stored titles and outcome of the service
\* the Express route and the Lambda handler answer with the same status
\* class and the same ok, raw and parsed fields, also when the reply cannot
\* be parsed or parses to a falsy value.
C17_SameResponses ==
  (req.pc = "done" /\ req.body.t = "obj") =>
    SameFields(req.resp, OtherResponse)

====
